---- MODULE Spec2Model ----
(***************************************************************************)
(* Event planning assistant: the SQLite record store (db_setup.py and     *)
(* DatabaseManager) and the completion-backed theme / plan generation     *)
(* (event_planning_nemo.py).                                               *)
(*                                                                         *)
(* Text is modelled as a sequence of tokens.  Text that the code only     *)
(* copies (a fixed message, an input field) is one opaque token; text the  *)
(* code inspects character by character (the completion content) is a     *)
(* sequence of one-character tokens.  Concatenation is \o.                 *)
(***************************************************************************)
EXTENDS Integers, Sequences, FiniteSets, TLC

VARIABLES
    fileExists,       \* the database file exists on disk
    hasTables,        \* the file holds the moderators and participants tables
    moderators,       \* committed rows of moderators, in rowid order
    participants,     \* committed rows of participants, in rowid order
    leakedConns,      \* connections opened by an operation and never closed
    writeLock,        \* one leaked connection holds an open write transaction
    lastOp,           \* the operation (or runtime event) that ran last
    lastArgs,         \* its arguments
    outcome,          \* "returned" | "reported_failure" | "raised"
    error,            \* class of the error raised or caught, "none" otherwise
    result,           \* rows returned by a fetch
    response,         \* outcome of the completion call of the last generation
    completionCalls,  \* completion calls made by the last generation
    prompt,           \* prompt sent with that call
    themes,           \* themes returned by the last theme generation
    plan              \* document returned by the last plan refinement

storeVars == <<fileExists, hasTables, moderators, participants, leakedConns, writeLock>>
callVars == <<lastOp, lastArgs, outcome, error, result>>
genVars == <<response, completionCalls, prompt, themes, plan>>
vars == <<storeVars, callVars, genVars>>

\* an Optional argument: None, or Some(v) holding v
None == << >>
Some(v) == <<v>>
Val(o) == o[1]

\* a NULL column value
NULL == "NULL"

-----------------------------------------------------------------------------
(* Bounds *)

\* rows that add_moderator calls may add to a store
MaxAddedModerators == 1
\* rows that add_participant calls may add to a store
MaxAddedParticipants == 2
\* connections that may be left open before the runtime finalizes one
MaxLeaked == 2
\* length of a names filter
MaxNames == 2
\* largest limit argument
MaxLimit == 1

-----------------------------------------------------------------------------
(* Sample rows of seed_sample_data *)

Mod(n, c, d, e, p, x) ==
    [name |-> n, city |-> c, description |-> d, email |-> e, phone |-> p, expertise |-> x]

Part(n, e, c, r, p) ==
    [name |-> n, email |-> e, company |-> c, role |-> r, phone |-> p]

sample_moderators == <<
    Mod("Jai Kumar", "Hyderabad", "Experienced technical event moderator with 10+ years",
        "jai.kumar@example.com", "+91-9876543210", "Technical, AI/ML, Cloud Computing"),
    Mod("Priya Sharma", "Bangalore", "Expert in corporate events and team building activities",
        "priya.sharma@example.com", "+91-9876543211", "Corporate, Team Building, Leadership"),
    Mod("Rahul Verma", "Mumbai", "Specialist in tech conferences and workshops",
        "rahul.verma@example.com", "+91-9876543212", "Conferences, Workshops, Technology"),
    Mod("Anita Desai", "Delhi", "Professional moderator for academic and research events",
        "anita.desai@example.com", "+91-9876543213", "Academic, Research, Science"),
    Mod("Vikram Singh", "Chennai", "Creative events and cultural program coordinator",
        "vikram.singh@example.com", "+91-9876543214", "Cultural, Creative, Entertainment") >>

sample_participants == <<
    Part("Alice Smith", "alice.smith@techcorp.com", "TechCorp", "Software Engineer", "+1-555-0101"),
    Part("Bob Johnson", "bob.johnson@innovate.com", "Innovate Inc", "Product Manager", "+1-555-0102"),
    Part("Carol White", "carol.white@datalytics.com", "DataLytics", "Data Scientist", "+1-555-0103"),
    Part("David Brown", "david.brown@cloudnet.com", "CloudNet", "DevOps Engineer", "+1-555-0104"),
    Part("Emma Davis", "emma.davis@aitech.com", "AI Tech", "ML Engineer", "+1-555-0105"),
    Part("Frank Miller", "frank.miller@startup.io", "StartupIO", "CTO", "+1-555-0106"),
    Part("Grace Lee", "grace.lee@enterprise.com", "Enterprise Co", "Architect", "+1-555-0107"),
    Part("Henry Wilson", "henry.wilson@solutions.com", "Solutions Ltd", "Consultant", "+1-555-0108"),
    Part("Iris Taylor", "iris.taylor@innovation.com", "Innovation Labs", "Researcher", "+1-555-0109"),
    Part("Jack Anderson", "jack.anderson@digital.com", "Digital Corp", "Team Lead", "+1-555-0110") >>

-----------------------------------------------------------------------------
(* Inputs *)

\* the default store path, and a path whose directory does not exist
DbPaths == {"event_planning.db", "/no/such/dir/event_planning.db"}

\* answers typed at the recreate question
Answers == {"yes", " YES ", "y", "no", ""}

\* payload of add_moderator: the name and the email of a sample moderator, in
\* another city, phone and expertise left at their default
ModeratorInputs ==
    { Mod("Jai Kumar", "Pune", "Panel host", "jai.kumar@example.com", NULL, NULL) }

\* payloads of add_participant: the email of a sample participant and a fresh one
ParticipantInputs ==
    { Part("Alice Smith", "alice.smith@techcorp.com", NULL, NULL, NULL),
      Part("Zoe Quinn", "zoe.quinn@fresh.org", NULL, NULL, NULL) }

SeqsUpTo(S, n) == UNION { [1..k -> S] : k \in 0..n }

\* names filters: absent, empty, or up to MaxNames names; each name is stored
\* in some stores and in none of the rows of others
ModeratorNameArgs ==
    {None} \cup { Some(l) : l \in SeqsUpTo({"Jai Kumar", "Anita Desai"}, MaxNames) }
ParticipantNameArgs ==
    {None} \cup { Some(l) : l \in SeqsUpTo({"Alice Smith", "Zoe Quinn"}, MaxNames) }
Limits == {None} \cup { Some(n) : n \in -1..MaxLimit }

-----------------------------------------------------------------------------
(* The store engine *)

\* sqlite3.connect succeeds when the file can be opened or created
CanConnect(db_path) == db_path = "event_planning.db"

\* every name of the model, in the order of the BINARY collation of the
\* name indexes
NameOrder == << "Alice Smith", "Anita Desai", "Bob Johnson", "Carol White", "David Brown",
                "Emma Davis", "Frank Miller", "Grace Lee", "Henry Wilson", "Iris Taylor",
                "Jack Anderson", "Jai Kumar", "Priya Sharma", "Rahul Verma",
                "Vikram Singh", "Zoe Quinn" >>

Range(s) == { s[i] : i \in DOMAIN s }

RECURSIVE SearchIndex(_, _, _)
\* rows with name IN names, as the search of the name index yields them: by
\* name, then by rowid
SearchIndex(rows, names, i) ==
    IF i > Len(NameOrder) THEN << >>
    ELSE (IF NameOrder[i] \in Range(names)
             THEN SelectSeq(rows, LAMBDA r : r.name = NameOrder[i])
             ELSE << >>)
         \o SearchIndex(rows, names, i + 1)

\* LIMIT n of a scan: a negative n is no limit
Limit(rows, n) == IF n < 0 \/ n >= Len(rows) THEN rows ELSE SubSeq(rows, 1, n)

\* a participants table declared without UNIQUE on email
EmailTaken_Unenforced(rows, email) == FALSE

\* the UNIQUE constraint on participants.email
EmailTaken(rows, email) == \E i \in DOMAIN rows : rows[i].email = email

\* rows of a table that are not sample rows
Added(rows, sample) == Len(SelectSeq(rows, LAMBDA r : r \notin Range(sample)))

\* connections that are open and hold no lock
IdleLeaked == leakedConns - (IF writeLock THEN 1 ELSE 0)

-----------------------------------------------------------------------------
(* Initial state: no database file, nothing called yet *)

Init ==
    /\ fileExists = FALSE
    /\ hasTables = FALSE
    /\ moderators = << >>
    /\ participants = << >>
    /\ leakedConns = 0
    /\ writeLock = FALSE
    /\ lastOp = "none"
    /\ lastArgs = << >>
    /\ outcome = "returned"
    /\ error = "none"
    /\ result = << >>
    /\ response = << >>
    /\ completionCalls = 0
    /\ prompt = << >>
    /\ themes = << >>
    /\ plan = << >>

Call(op, args, out, err, res) ==
    /\ lastOp' = op
    /\ lastArgs' = args
    /\ outcome' = out
    /\ error' = err
    /\ result' = res

-----------------------------------------------------------------------------
(* db_setup.py *)

\* a reading of the answer that takes the short "y" for a yes too
StripLower_Lenient(answer) ==
    CASE answer \in {" YES ", "y"} -> "yes"
      [] OTHER -> answer

\* input(...).strip().lower() of the recreate answer
StripLower(answer) ==
    CASE answer = " YES " -> "yes"
      [] OTHER -> answer

create_database(db_path, answer) ==
    IF CanConnect(db_path) /\ fileExists /\ StripLower(answer) # "yes"
    THEN \* "Keeping existing database."
         /\ Call("create_database", <<db_path, answer>>, "returned", "none", << >>)
         /\ UNCHANGED <<storeVars, genVars>>
    ELSE IF ~CanConnect(db_path)
    THEN \* the path does not exist and sqlite3.connect cannot create it
         /\ Call("create_database", <<db_path, answer>>, "raised", "OperationalError", << >>)
         /\ UNCHANGED <<storeVars, genVars>>
    ELSE \* the old file, if any, is unlinked; a lock on it is a lock on no file
         /\ fileExists' = TRUE
         /\ hasTables' = TRUE
         /\ moderators' = IF fileExists THEN << >> ELSE moderators
         /\ participants' = IF fileExists THEN << >> ELSE participants
         /\ writeLock' = FALSE
         /\ UNCHANGED leakedConns
         /\ Call("create_database", <<db_path, answer>>, "returned", "none", << >>)
         /\ UNCHANGED genVars

RECURSIVE executemany_participants_Partial(_, _, _)
\* an executemany that stops at the first row whose email is taken and keeps
\* the rows inserted so far, without an error
executemany_participants_Partial(rows, batch, i) ==
    IF i > Len(batch) THEN rows
    ELSE IF EmailTaken(rows, batch[i].email) THEN rows
    ELSE executemany_participants_Partial(Append(rows, batch[i]), batch, i + 1)

RECURSIVE executemany_participants(_, _, _)
\* executemany of the participants INSERT: the rows of the transaction after
\* the batch, or "IntegrityError" at the first row whose email is taken
executemany_participants(rows, batch, i) ==
    IF i > Len(batch) THEN rows
    ELSE IF EmailTaken(rows, batch[i].email) THEN "IntegrityError"
    ELSE executemany_participants(Append(rows, batch[i]), batch, i + 1)

\* an operation that leaves by an exception without closing its connection
Leak(holdsLock) ==
    /\ leakedConns < MaxLeaked
    /\ leakedConns' = leakedConns + 1
    /\ writeLock' = (writeLock \/ holdsLock)

seed_sample_data(db_path) ==
    LET op(out, err) == Call("seed_sample_data", <<db_path>>, out, err, << >>) IN
    /\ UNCHANGED genVars
    /\ IF ~CanConnect(db_path)
       THEN op("raised", "OperationalError") /\ UNCHANGED storeVars
       ELSE
       /\ fileExists' = TRUE
       /\ UNCHANGED hasTables
       /\ IF ~hasTables \/ writeLock
          THEN \* no such table, or database is locked: the first INSERT raises
               /\ op("raised", "OperationalError")
               /\ Leak(FALSE)
               /\ UNCHANGED <<moderators, participants>>
          ELSE LET inserted == executemany_participants(participants, sample_participants, 1) IN
               IF inserted = "IntegrityError"
               THEN \* raised after the moderators were inserted, before commit
                    /\ op("raised", "IntegrityError")
                    /\ Leak(TRUE)
                    /\ UNCHANGED <<moderators, participants>>
               ELSE /\ op("returned", "none")
                    /\ moderators' = moderators \o sample_moderators
                    /\ participants' = inserted
                    /\ UNCHANGED <<leakedConns, writeLock>>

add_moderator(db_path, row) ==
    LET op(out, err) == Call("add_moderator", <<db_path, row>>, out, err, << >>) IN
    /\ Added(moderators, sample_moderators) < MaxAddedModerators
    /\ UNCHANGED <<genVars, participants>>
    /\ IF ~CanConnect(db_path)
       THEN op("raised", "OperationalError") /\ UNCHANGED storeVars
       ELSE
       /\ fileExists' = TRUE
       /\ UNCHANGED hasTables
       /\ IF ~hasTables \/ writeLock
          THEN /\ op("raised", "OperationalError")
               /\ Leak(FALSE)
               /\ UNCHANGED moderators
          ELSE /\ op("returned", "none")
               /\ moderators' = Append(moderators, row)
               /\ UNCHANGED <<leakedConns, writeLock>>

add_participant(db_path, row) ==
    LET op(out, err) == Call("add_participant", <<db_path, row>>, out, err, << >>) IN
    /\ Added(participants, sample_participants) < MaxAddedParticipants
    /\ UNCHANGED <<genVars, moderators, leakedConns, writeLock>>
    /\ IF ~CanConnect(db_path)
       THEN op("raised", "OperationalError") /\ UNCHANGED storeVars
       ELSE
       /\ fileExists' = TRUE
       /\ UNCHANGED hasTables
       /\ IF ~hasTables \/ writeLock
          THEN \* not an IntegrityError: passes the except clause, after finally
               /\ op("raised", "OperationalError")
               /\ UNCHANGED participants
          ELSE IF EmailTaken(participants, row.email)
          THEN \* "Participant with email ... already exists!"
               /\ op("reported_failure", "IntegrityError")
               /\ UNCHANGED participants
          ELSE /\ op("returned", "none")
               /\ participants' = Append(participants, row)

\* the runtime finalizes a connection an operation left open: its open
\* transaction is rolled back and its lock released
Finalize ==
    /\ leakedConns > 0
    /\ \E holder \in BOOLEAN :
        /\ IF holder THEN writeLock ELSE IdleLeaked > 0
        /\ writeLock' = (writeLock /\ ~holder)
    /\ leakedConns' = leakedConns - 1
    /\ Call("finalize", << >>, "returned", "none", << >>)
    /\ UNCHANGED <<fileExists, hasTables, moderators, participants, genVars>>

-----------------------------------------------------------------------------
(* DatabaseManager *)

\* a Python list or None in a condition
Truthy(names) == names # None /\ Val(names) # << >>

RECURSIVE Correlate(_, _, _)
\* the rows of each given name, name after name in the order given
Correlate(rows, names, i) ==
    IF i > Len(names) THEN << >>
    ELSE SelectSeq(rows, LAMBDA r : r.name = names[i]) \o Correlate(rows, names, i + 1)

\* a query that correlates the rows with the names in the order given
select_moderators_Correlated(rows, moderator_names) ==
    IF Truthy(moderator_names)
    THEN Correlate(rows, Val(moderator_names), 1)
    ELSE rows

\* a query that filters whenever a list is given, an empty one too
select_moderators_FilterEmpty(rows, moderator_names) ==
    IF moderator_names # None
    THEN SearchIndex(rows, Val(moderator_names), 1)
    ELSE rows

\* a query that applies the limit to a name-filtered result too
select_participants_LimitFiltered(rows, participant_names, limit) ==
    LET found == IF Truthy(participant_names)
                 THEN SearchIndex(rows, Val(participant_names), 1)
                 ELSE rows IN
    IF limit # None /\ Val(limit) # 0 THEN Limit(found, Val(limit)) ELSE found

\* the query of fetch_moderators_from_db and the rows it fetches
select_moderators(rows, moderator_names) ==
    IF Truthy(moderator_names)
    THEN SearchIndex(rows, Val(moderator_names), 1)
    ELSE rows

\* the query of fetch_participants_from_db and the rows it fetches
select_participants(rows, participant_names, limit) ==
    IF Truthy(participant_names)
    THEN SearchIndex(rows, Val(participant_names), 1)
    ELSE IF limit # None /\ Val(limit) # 0
    THEN Limit(rows, Val(limit))
    ELSE rows

fetch_moderators_from_db(db_path, moderator_names) ==
    LET op(out, err, res) ==
            Call("fetch_moderators_from_db", <<db_path, moderator_names>>, out, err, res) IN
    /\ UNCHANGED <<genVars, hasTables, moderators, participants, leakedConns, writeLock>>
    /\ IF ~CanConnect(db_path)
       THEN op("raised", "OperationalError", << >>) /\ UNCHANGED fileExists
       ELSE
       /\ fileExists' = TRUE
       /\ IF ~hasTables
          THEN op("returned", "OperationalError", << >>)
          ELSE op("returned", "none", select_moderators(moderators, moderator_names))

fetch_participants_from_db(db_path, participant_names, limit) ==
    LET op(out, err, res) ==
            Call("fetch_participants_from_db", <<db_path, participant_names, limit>>,
                 out, err, res) IN
    /\ UNCHANGED <<genVars, hasTables, moderators, participants, leakedConns, writeLock>>
    /\ IF ~CanConnect(db_path)
       THEN op("raised", "OperationalError", << >>) /\ UNCHANGED fileExists
       ELSE
       /\ fileExists' = TRUE
       /\ IF ~hasTables
          THEN op("returned", "OperationalError", << >>)
          ELSE op("returned", "none",
                  select_participants(participants, participant_names, limit))

-----------------------------------------------------------------------------
(* Specification of the record store *)

Next ==
    \/ \E p \in DbPaths, a \in Answers : create_database(p, a)
    \/ \E p \in DbPaths : seed_sample_data(p)
    \/ \E p \in DbPaths, r \in ModeratorInputs : add_moderator(p, r)
    \/ \E p \in DbPaths, r \in ParticipantInputs : add_participant(p, r)
    \/ \E n \in ModeratorNameArgs : fetch_moderators_from_db("event_planning.db", n)
    \/ \E n \in ParticipantNameArgs, l \in Limits :
          fetch_participants_from_db("event_planning.db", n, l)
    \/ \E p \in DbPaths \ {"event_planning.db"} :
          \/ fetch_moderators_from_db(p, None)
          \/ fetch_participants_from_db(p, None, None)
    \/ Finalize

Spec == Init /\ [][Next]_vars

-----------------------------------------------------------------------------
(* Text *)

\* one-character tokens of a completion content: the characters the parser
\* tells apart, and a letter standing for any other character; a heading
\* marker and two blank lines come as one piece each
Pieces ==
    { <<"*", "*", "1", ".">>, <<"*", "*">>, <<"1">>, <<".">>, <<" ">>, <<"\n">>,
      <<"\n", "\n", "\n">>, <<"a">> }

\* pieces in a completion content offered to the theme parser
MaxPieces == 4
\* pieces in a completion content offered to the plan refinement
MaxPlanPieces == 2

RECURSIVE Flatten(_)
Flatten(ps) == IF ps = << >> THEN << >> ELSE Head(ps) \o Flatten(Tail(ps))

Contents(n) == { Flatten(ps) : ps \in SeqsUpTo(Pieces, n) }

\* str.isspace and the class \s
IsSpace(c) == c \in {" ", "\n"}
\* the class \d
IsDigit(c) == c = "1"

RECURSIVE lstrip(_)
lstrip(s) == IF s # << >> /\ IsSpace(Head(s)) THEN lstrip(Tail(s)) ELSE s

RECURSIVE rstrip(_)
rstrip(s) == IF s # << >> /\ IsSpace(s[Len(s)]) THEN rstrip(SubSeq(s, 1, Len(s) - 1)) ELSE s

\* str.strip()
strip(s) == rstrip(lstrip(s))

\* s contains sub as a substring
Contains(s, sub) ==
    \E i \in 0..(Len(s) - Len(sub)) : SubSeq(s, i + 1, i + Len(sub)) = sub

-----------------------------------------------------------------------------
(* The completion call and the extraction of its content *)

Settings == [nim_base_url |-> <<"http://localhost:8202">>,
             model_name |-> <<"meta/llama3.1-8b-instruct">>]

\* what completion(...) does: it raises, or returns a value of this shape
FailureKinds ==
    { "raises",                 \* an exception, whose text is text
      "None",                   \* None
      "not_a_dict",             \* an object that is no dict
      "no_choices_key",         \* a dict without the key "choices"
      "choices_None",           \* {"choices": None}
      "choices_empty",          \* {"choices": []}
      "choice_not_mapping",     \* {"choices": ["..."]}
      "message_missing",        \* {"choices": [{}]}
      "message_empty",          \* {"choices": [{"message": {}}]}
      "message_not_mapping",    \* {"choices": [{"message": "..."}]}
      "content_missing",        \* {"choices": [{"message": {"role": ...}}]}
      "content_None",           \* ... {"content": None}
      "content_not_str" }       \* ... {"content": 7}

Response(kind, text) == [kind |-> kind, text |-> text]

\* a response with a content string, the empty string included
ContentResponses(n) == { Response("content", c) : c \in Contents(n) }

FailureResponses ==
    { Response(k, IF k = "raises" THEN <<"Connection error.">> ELSE << >>) : k \in FailureKinds }

Raised(text) == [ok |-> FALSE, text |-> text]

\* the call and the checks that follow it, to the content or to the exception
\* that ends the try block, with the text str(e) of that exception
extract_content(resp) ==
    IF resp.kind = "raises" THEN Raised(resp.text)
    ELSE IF resp.kind = "None" THEN Raised(<<"LLM returned None response">>)
    ELSE IF resp.kind = "no_choices_key" THEN Raised(<<"'choices'">>)
    ELSE IF resp.kind \in {"not_a_dict", "choices_None", "choices_empty"}
    THEN Raised(<<"LLM response has no choices">>)
    ELSE IF resp.kind = "choice_not_mapping"
    THEN Raised(<<"'str' object has no attribute 'get'">>)
    ELSE IF resp.kind \in {"message_missing", "message_empty"}
    THEN Raised(<<"LLM response has no message">>)
    ELSE IF resp.kind = "message_not_mapping"
    THEN Raised(<<"'str' object has no attribute 'get'">>)
    ELSE IF resp.kind \in {"content_missing", "content_None"} \/ resp.text = << >>
    THEN Raised(<<"LLM response has no content">>)
    ELSE IF resp.kind = "content_not_str"
    THEN Raised(<<"'int' object has no attribute 'strip'">>)
    ELSE [ok |-> TRUE, text |-> resp.text]

-----------------------------------------------------------------------------
(* Theme parsing *)

RECURSIVE DigitRun(_, _)
\* \d+ : length of the run of digits that starts at s[i]
DigitRun(s, i) == IF i <= Len(s) /\ IsDigit(s[i]) THEN 1 + DigitRun(s, i + 1) ELSE 0

RECURSIVE SpaceRun(_, _)
\* \s* : length of the run of whitespace that starts at s[i]
SpaceRun(s, i) == IF i <= Len(s) /\ IsSpace(s[i]) THEN 1 + SpaceRun(s, i + 1) ELSE 0

\* a match of \*\*\d+\.\s* that starts at s[i]: the index after it, 0 if none
MatchEnd(s, i) ==
    IF i + 1 <= Len(s) /\ s[i] = "*" /\ s[i + 1] = "*"
    THEN LET d == DigitRun(s, i + 2)
             dot == i + 2 + d IN
         IF d >= 1 /\ dot <= Len(s) /\ s[dot] = "."
         THEN dot + 1 + SpaceRun(s, dot + 1)
         ELSE 0
    ELSE 0

RECURSIVE re_split(_, _, _)
\* re.split of the pattern: the texts between the matches, empty ones too
re_split(s, i, segment) ==
    IF i > Len(s) THEN <<segment>>
    ELSE LET e == MatchEnd(s, i) IN
         IF e > 0 THEN <<segment>> \o re_split(s, e, << >>)
         ELSE re_split(s, i + 1, Append(segment, s[i]))

RECURSIVE replace_blank_lines(_, _)
\* theme.replace("\n\n", "\n"): one pass, left to right, over s from s[i]
replace_blank_lines(s, i) ==
    IF i > Len(s) THEN << >>
    ELSE IF i < Len(s) /\ s[i] = "\n" /\ s[i + 1] = "\n"
    THEN <<"\n">> \o replace_blank_lines(s, i + 2)
    ELSE <<s[i]>> \o replace_blank_lines(s, i + 1)

RECURSIVE clean_Unstripped(_)
\* the same comprehension without the strip()
clean_Unstripped(segments) ==
    IF segments = << >> THEN << >>
    ELSE (IF Head(segments) # << >>
          THEN <<replace_blank_lines(Head(segments), 1)>>
          ELSE << >>)
         \o clean_Unstripped(Tail(segments))

RECURSIVE clean(_)
\* [theme.replace("\n\n", "\n").strip() for theme in themes if theme]
clean(segments) ==
    IF segments = << >> THEN << >>
    ELSE (IF Head(segments) # << >>
          THEN <<strip(replace_blank_lines(Head(segments), 1))>>
          ELSE << >>)
         \o clean(Tail(segments))

\* a parsing that takes the text before the first heading for a preamble
\* and drops it, empty or not
cleaned_themes_DropLeading(content) ==
    LET raw_response == strip(content)
        split == re_split(raw_response, 1, << >>)
        segments == Tail(split)
    IN clean(segments)

\* raw_response to cleaned_themes
cleaned_themes(content) ==
    LET raw_response == strip(content)
        split == re_split(raw_response, 1, << >>)
        segments == IF split # << >> /\ strip(split[1]) = << >> THEN Tail(split) ELSE split
    IN clean(segments)

\* a standalone copy of the parsing that omits the strip()
standalone_cleaned_themes_Unstripped(content) ==
    LET raw_response == strip(content)
        split == re_split(raw_response, 1, << >>)
        segments == IF split # << >> /\ strip(split[1]) = << >> THEN Tail(split) ELSE split
    IN clean_Unstripped(segments)

\* the copy of the same parsing in EventPlanningWorkflow.generate_event_themes
standalone_cleaned_themes(content) ==
    LET raw_response == strip(content)
        split == re_split(raw_response, 1, << >>)
        segments == IF split # << >> /\ strip(split[1]) = << >> THEN Tail(split) ELSE split
    IN clean(segments)

-----------------------------------------------------------------------------
(* Theme generation *)

EventIdeas == { <<"pickle ball event">>, <<"robotics fair">> }

themes_prompt(event_idea) ==
    <<"Generate exactly five professional, creative, and distinct event ideas with titles and detailed descriptions based on: '">>
    \o event_idea
    \o <<"'. Format each theme as a numbered bold title followed by its description">>

\* a fallback that leaves the error out
fallback_themes_NoError(e) ==
    << <<"**Event Theme 1**: Unable to generate themes. Please check your LLM configuration.">>,
       <<"**Event Theme 3**: Verify NIM_BASE_URL and NVIDIA_API_KEY are set correctly.">>,
       <<"**Event Theme 4**: Ensure your NVIDIA NIM endpoint is running.">>,
       <<"**Event Theme 5**: Check network connectivity to the NIM server.">> >>

\* the default themes returned from the except clause, for an exception of text e
fallback_themes(e) ==
    << <<"**Event Theme 1**: Unable to generate themes. Please check your LLM configuration.">>,
       <<"**Event Theme 2**: Error: ">> \o e,
       <<"**Event Theme 3**: Verify NIM_BASE_URL and NVIDIA_API_KEY are set correctly.">>,
       <<"**Event Theme 4**: Ensure your NVIDIA NIM endpoint is running.">>,
       <<"**Event Theme 5**: Check network connectivity to the NIM server.">> >>

\* the try block and the except clause of the registered handler
ThemesOutput(resp) ==
    LET got == extract_content(resp) IN
    IF ~got.ok THEN fallback_themes(got.text)
    ELSE LET cleaned == cleaned_themes(got.text) IN
         IF cleaned = << >>
         THEN fallback_themes(<<"Failed to extract themes from LLM response">>)
         ELSE cleaned

\* the try block and the except clause of the standalone method
standalone_themes(resp) ==
    LET got == extract_content(resp) IN
    IF ~got.ok THEN << <<"Error generating themes: ">> \o got.text >>
    ELSE LET cleaned == standalone_cleaned_themes(got.text) IN
         IF cleaned = << >>
         THEN << <<"Error: Unable to generate themes">> >>
         ELSE cleaned

Generated(op, args, resp, calls, sent, out, err, th, pl) ==
    /\ Call(op, args, out, err, << >>)
    /\ response' = resp
    /\ completionCalls' = calls
    /\ prompt' = sent
    /\ themes' = th
    /\ plan' = pl
    /\ UNCHANGED storeVars

\* no handler is running and no output waits to be taken: the handlers run
\* one at a time, each to completion
Idle == lastOp = "none"

\* generate_event_themes._generate_themes, the registered handler
_generate_themes(event_idea, resp) ==
    /\ Idle
    /\ Generated("_generate_themes", <<event_idea>>, resp, 1, themes_prompt(event_idea),
              "returned", "none", ThemesOutput(resp), << >>)

\* EventPlanningWorkflow.generate_event_themes
generate_event_themes(event_idea, resp) ==
    /\ Idle
    /\ Generated("generate_event_themes", <<event_idea>>, resp, 1, themes_prompt(event_idea),
              "returned", "none", standalone_themes(resp), << >>)


-----------------------------------------------------------------------------
(* Plan refinement *)

\* moderator mappings: complete, without a description, without a name
ModeratorLists ==
    { << >>,
      << [name |-> <<"Jai Kumar">>, city |-> <<"Hyderabad">>, description |-> <<"AI/ML">>] >>,
      << [name |-> <<"Priya Sharma">>, city |-> <<"Bangalore">>] >>,
      << [name |-> <<"Jai Kumar">>, city |-> <<"Hyderabad">>, description |-> <<"AI/ML">>],
         [name |-> <<"Priya Sharma">>, city |-> <<"Bangalore">>] >>,
      << [city |-> <<"Mumbai">>] >> }

Dates == { <<"24-01-2025">>, <<"25-01-2025">> }

EventPlanInputs ==
    { [selected_theme |-> <<"Smash and Learn">>, start_date |-> sd, end_date |-> ed,
       start_time |-> <<"11:00 AM">>, end_time |-> <<"5:00 PM">>, location |-> <<"HYDERABAD">>,
       event_type |-> <<"Technical Conference">>, moderators |-> ms] :
        sd \in Dates, ed \in Dates, ms \in ModeratorLists }

\* moderator['name'] and moderator['city'] of every moderator can be read
HasKeys(ms) == \A i \in DOMAIN ms : {"name", "city"} \subseteq DOMAIN ms[i]

RECURSIVE moderator_descriptions(_, _)
\* " ".join of one clause per moderator, from ms[i] on
moderator_descriptions(ms, i) ==
    IF i > Len(ms) THEN << >>
    ELSE ms[i].name \o <<" from ">> \o ms[i].city \o <<" with expertise in ">>
         \o (IF "description" \in DOMAIN ms[i] THEN ms[i].description ELSE <<"events">>)
         \o (IF i < Len(ms) THEN <<" ">> ELSE << >>)
         \o moderator_descriptions(ms, i + 1)

moderators_str(ms) ==
    IF ms # << >>
    THEN <<"The moderators for this event are: ">> \o moderator_descriptions(ms, 1) \o <<".">>
    ELSE <<"No specific moderators provided.">>

refine_prompt(in) ==
    IF in.start_date = in.end_date
    THEN <<"Using the theme: '">> \o in.selected_theme
         \o <<"', provide a detailed descriptive agenda with timings (from ">>
         \o in.start_time \o <<" to ">> \o in.end_time
         \o <<"), location, target audience, and purpose for the event on ">>
         \o in.start_date \o <<". It is a ">> \o in.event_type \o <<" event at ">>
         \o in.location \o <<". ">> \o moderators_str(in.moderators)
         \o <<" Additionally, draft a professional and concise email invitation content that includes the event title, date, time, location, and a brief overview to invite participants.">>
    ELSE <<"Using the theme: '">> \o in.selected_theme
         \o <<"', provide a detailed descriptive agenda with timings (from ">>
         \o in.start_time \o <<" to ">> \o in.end_time
         \o <<"), location, target audience, and purpose for the event from ">>
         \o in.start_date \o <<" to ">> \o in.end_date
         \o <<". It is a ">> \o in.event_type \o <<" event at ">>
         \o in.location \o <<". ">> \o moderators_str(in.moderators)
         \o <<" Please make sure to split the agenda across both days (">>
         \o in.start_date \o <<" and ">> \o in.end_date
         \o <<"), showing a balanced distribution of sessions, breaks, and networking events for both days. ">>
         \o <<"Additionally, draft a professional and concise email invitation content that includes the event title, date range, daily timings, location, and a brief overview to invite participants.">>

\* a fallback document that names neither the place nor the failure
error_plan_Generic(in, e) ==
    <<"\n# Event Planning Error\n\n**Theme**: ">> \o in.selected_theme
    \o <<"\n**Date**: ">> \o in.start_date \o <<" to ">> \o in.end_date
    \o <<"\n\nPlease check your configuration and try again.\n">>

\* the fallback document of the except clause, for an exception of text e
error_plan(in, e) ==
    <<"\n# Event Planning Error\n\n**Theme**: ">> \o in.selected_theme
    \o <<"\n**Location**: ">> \o in.location
    \o <<"\n**Date**: ">> \o in.start_date \o <<" to ">> \o in.end_date
    \o <<"\n**Time**: ">> \o in.start_time \o <<" - ">> \o in.end_time
    \o <<"\n\n## Error Details\nUnable to generate event plan due to: ">> \o e
    \o <<"\n\n## Troubleshooting\n1. Verify NIM_BASE_URL is set correctly: ">>
    \o Settings.nim_base_url
    \o <<"\n2. Check NVIDIA_API_KEY is valid\n3. Ensure NVIDIA NIM endpoint is running and accessible\n4. Check network connectivity\n5. Verify model name: ">>
    \o Settings.model_name
    \o <<"\n\nPlease check your configuration and try again.\n">>

\* the try block and the except clause of the registered handler
refined_plan(in, resp) ==
    LET got == extract_content(resp) IN
    IF got.ok THEN strip(got.text) ELSE error_plan(in, got.text)

\* refine_event_plan._refine_plan, the registered handler
_refine_plan(in, resp) ==
    /\ Idle
    /\ IF ~HasKeys(in.moderators)
       THEN \* KeyError while the moderator sentence is built, before the try block
            Generated("_refine_plan", <<in>>, << >>, 0, << >>, "raised", "KeyError", << >>, << >>)
       ELSE Generated("_refine_plan", <<in>>, resp, 1, refine_prompt(in),
                      "returned", "none", << >>, refined_plan(in, resp))

\* the caller takes the output (or the exception) of the handler it awaited
take_output ==
    /\ ~Idle
    /\ Generated("none", << >>, << >>, 0, << >>, "returned", "none", << >>, << >>)

-----------------------------------------------------------------------------
(* Specification of the generation layer *)

GenNext ==
    \/ /\ Idle
       /\ \E idea \in EventIdeas, resp \in FailureResponses \cup ContentResponses(MaxPieces) :
            _generate_themes(idea, resp)
    \/ /\ Idle
       /\ \E idea \in EventIdeas, resp \in FailureResponses \cup ContentResponses(MaxPieces) :
            generate_event_themes(idea, resp)
    \/ /\ Idle
       /\ \E in \in EventPlanInputs,
             resp \in FailureResponses \cup ContentResponses(MaxPlanPieces) :
            _refine_plan(in, resp)
    \/ take_output

GenSpec == Init /\ [][GenNext]_vars

-----------------------------------------------------------------------------
(* Claims about the record store, checked under Spec *)

StorePath == "event_planning.db"

\* the last call was op, on the store
Ran(op) == lastOp = op /\ lastArgs[1] = StorePath

\* C1: no two rows of the participants table have the same email, in every
\* state reachable by calls of the store operations, successful or failing
C1_UniqueEmails ==
    \A i, j \in DOMAIN participants :
        i # j => participants[i].email # participants[j].email

\* a duplicate email was offered to a table of several rows, and refused
C1_Witness ==
    /\ Ran("add_participant")
    /\ error = "IntegrityError"
    /\ Len(participants) >= 2

\* C2 as claimed: add_participant with an email that is already stored
\* reports a failure without raising and leaves the table as it was, and an
\* add_participant with a fresh email that follows it succeeds
C2_DuplicateReported ==
    [][ /\ ( /\ lastOp' = "add_participant"
             /\ lastArgs'[1] = StorePath
             /\ EmailTaken(participants, lastArgs'[2].email) )
            => ( /\ outcome' = "reported_failure"
                 /\ participants' = participants )
        /\ ( /\ Ran("add_participant")
             /\ outcome = "reported_failure"
             /\ lastOp' = "add_participant"
             /\ lastArgs'[1] = StorePath
             /\ ~EmailTaken(participants, lastArgs'[2].email) )
            => ( /\ outcome' = "returned"
                 /\ participants' = Append(participants, lastArgs'[2]) )
      ]_vars

StoreCalls ==
    {"fetch_moderators_from_db", "fetch_participants_from_db", "add_moderator", "add_participant"}

\* C6 as claimed: whatever error the store raises, at any step, a fetch or an
\* add returns normally: a read returns the empty sequence, a write reports
\* a failure
C6_NoStoreErrorPropagates ==
    lastOp \in StoreCalls =>
        /\ outcome # "raised"
        /\ error # "none" =>
            IF lastOp \in {"add_moderator", "add_participant"}
            THEN outcome = "reported_failure"
            ELSE result = << >>

\* C7 as claimed: every operation closes the connection it opened before
\* control leaves it, so no connection is open between calls
C7_NoConnectionLeftOpen == leakedConns = 0

\* number of rows of a table with a name among the given ones
Matching(rows, names) == Cardinality({ i \in DOMAIN rows : rows[i].name \in Range(names) })

Min(a, b) == IF a < b THEN a ELSE b

\* C8: with a non-empty names list, fetch_participants_from_db returns every
\* stored row whose name is given and no other row, whatever the limit (the
\* limit never truncates a name-filtered result); with no names filter a
\* positive limit n caps the result at the first n rows
C8_LimitIgnoredWithNames ==
    (Ran("fetch_participants_from_db") /\ outcome = "returned" /\ error = "none") =>
        LET names == lastArgs[2]
            limit == lastArgs[3] IN
        /\ Truthy(names) =>
            /\ Len(result) = Matching(participants, Val(names))
            /\ \A i \in DOMAIN participants :
                  participants[i].name \in Range(Val(names)) => participants[i] \in Range(result)
            /\ \A r \in Range(result) :
                  r \in Range(participants) /\ r.name \in Range(Val(names))
        /\ (~Truthy(names) /\ limit # None /\ Val(limit) > 0) =>
            result = SubSeq(participants, 1, Min(Val(limit), Len(participants)))

\* a limit of 1 was given with names that two stored rows bear, and both rows
\* came back
C8_Witness ==
    /\ Ran("fetch_participants_from_db")
    /\ Truthy(lastArgs[2])
    /\ lastArgs[3] = Some(1)
    /\ Len(result) = 2

\* C9: fetch_moderators_from_db with an empty names list returns what it
\* returns with names absent: every moderator row, in storage order
C9_EmptyFilterIsNoFilter ==
    (Ran("fetch_moderators_from_db") /\ outcome = "returned" /\ error = "none"
        /\ lastArgs[2] \in {None, Some(<< >>)}) =>
        result = moderators

\* the empty list was given and rows came back
C9_Witness ==
    /\ Ran("fetch_moderators_from_db")
    /\ lastArgs[2] = Some(<< >>)
    /\ Len(result) > 0

\* place of a name in the order of the name index
Rank(name) == CHOOSE i \in DOMAIN NameOrder : NameOrder[i] = name

WithName(rows, n) == SelectSeq(rows, LAMBDA r : r.name = n)

\* C10: with a non-empty names list, fetch_moderators_from_db returns
\* exactly the stored rows whose name is in the set of the given names, each
\* stored row once: per name the stored rows of that name if the name is
\* given and nothing otherwise, the names in the order of the name index,
\* which makes the result a function of the set of names alone
C10_SetMembershipFilter ==
    (Ran("fetch_moderators_from_db") /\ outcome = "returned" /\ error = "none"
        /\ Truthy(lastArgs[2])) =>
        LET given == Range(Val(lastArgs[2])) IN
        /\ \A n \in { r.name : r \in Range(moderators) \cup Range(result) } :
              WithName(result, n) = IF n \in given THEN WithName(moderators, n) ELSE << >>
        /\ \A i, j \in DOMAIN result :
              i < j => Rank(result[i].name) <= Rank(result[j].name)

\* two names were given, the store holds two rows of the first and one of the
\* second, and the row of the second name came back first
C10_Witness ==
    /\ Ran("fetch_moderators_from_db")
    /\ lastArgs[2] = Some(<<"Jai Kumar", "Anita Desai">>)
    /\ Len(result) = 3
    /\ result[1].name = "Anita Desai"

\* C11 as claimed: every add_moderator on a store that holds the tables adds
\* exactly the given row after the rows already stored, whatever they are,
\* and an unfiltered fetch_moderators_from_db that follows returns the rows
\* stored before, unchanged and in place, and then the new row
C11_ModeratorAdded ==
    [][ /\ ( /\ lastOp' = "add_moderator"
             /\ lastArgs'[1] = StorePath
             /\ hasTables )
            => ( /\ outcome' = "returned"
                 /\ moderators' = Append(moderators, lastArgs'[2]) )
        /\ ( /\ Ran("add_moderator")
             /\ hasTables
             /\ lastOp' = "fetch_moderators_from_db"
             /\ lastArgs' = <<StorePath, None>> )
            => ( /\ Len(result') >= 1
                 /\ result'[Len(result')] = lastArgs[2]
                 /\ \A i \in DOMAIN moderators : result'[i] = moderators[i] )
      ]_vars

\* the store as create_database leaves it after a recreation
Recreated ==
    /\ fileExists' /\ hasTables'
    /\ moderators' = << >> /\ participants' = << >>

\* C14 as claimed: create_database on a path where the file exists leaves
\* the file, its tables and every row as they are unless the answer to the
\* recreate question is the string 'yes', and with that answer it replaces
\* the file by one with empty tables
C14_OnlyYesRecreates ==
    [][ ( /\ lastOp' = "create_database"
          /\ lastArgs'[1] = StorePath
          /\ fileExists )
         => IF lastArgs'[2] = "yes"
            THEN Recreated
            ELSE UNCHANGED <<fileExists, hasTables, moderators, participants>>
      ]_vars

\* C14 amended: the answer is read without its surrounding whitespace and
\* without regard to case: create_database on a path where the file exists
\* replaces the file by one with empty tables when the answer so read is
\* 'yes' (' YES ' as well as 'yes'), and leaves the file, its tables and
\* every row as they are on every other answer ('y', 'no', the empty answer)
C14_OnlyYesAsReadRecreates ==
    [][ ( /\ lastOp' = "create_database"
          /\ lastArgs'[1] = StorePath
          /\ fileExists )
         => IF lastArgs'[2] \in {"yes", " YES "}
            THEN Recreated
            ELSE UNCHANGED <<fileExists, hasTables, moderators, participants>>
      ]_vars

\* the answer 'y' was given on a seeded store, and its rows are still there
C14_Witness ==
    /\ lastOp = "create_database"
    /\ lastArgs = <<StorePath, "y">>
    /\ Len(moderators) = 5
    /\ Len(participants) = 10

\* C18: a seed_sample_data call on the store either returns, having
\* committed the five sample moderators and the ten sample participants
\* after the rows already stored, or raises, and then both tables hold
\* exactly the rows they held before the call; the rows stay so when the
\* connection the failed call left open is finalized
C18_SeedAllOrNothing ==
    [][ /\ ( /\ lastOp' = "seed_sample_data"
             /\ lastArgs'[1] = StorePath )
            => IF outcome' = "returned"
               THEN /\ moderators' = moderators \o sample_moderators
                    /\ participants' = participants \o sample_participants
               ELSE /\ outcome' = "raised"
                    /\ UNCHANGED <<moderators, participants>>
        /\ lastOp' = "finalize" => UNCHANGED <<moderators, participants>>
      ]_vars

\* a second seed_sample_data on a seeded store failed on the email of a
\* sample participant, and the tables hold the rows of the first call only
C18_Witness ==
    /\ Ran("seed_sample_data")
    /\ outcome = "raised"
    /\ error = "IntegrityError"
    /\ moderators = sample_moderators
    /\ participants = sample_participants

-----------------------------------------------------------------------------
(* Claims about the generation layer, checked under GenSpec *)

\* the completion call failed: it raised, or its response carries no content
NoContent(resp) == resp.kind # "content" \/ resp.text = << >>

\* the text of the error a failed generation reports
ErrorText(resp) == extract_content(resp).text

NoThemesText == <<"Failed to extract themes from LLM response">>

\* C3: for every failure of the one completion call of the registered
\* generate_event_themes handler, and for a content from which no segment is
\* parsed, the handler returns, after that one call, a list of exactly five
\* themes whose second element embeds the error text
C3_FiveFallbackThemes ==
    (lastOp = "_generate_themes"
        /\ (NoContent(response) \/ cleaned_themes(response.text) = << >>)) =>
        /\ outcome = "returned"
        /\ completionCalls = 1
        /\ Len(themes) = 5
        /\ Contains(themes[2], IF NoContent(response) THEN ErrorText(response) ELSE NoThemesText)

\* a content that is not empty and parses to no segment gave the fallback
C3_Witness ==
    /\ lastOp = "_generate_themes"
    /\ ~NoContent(response)
    /\ Len(themes) = 5
    /\ Contains(themes[2], NoThemesText)

\* C4 as claimed: for the same completion outcome the standalone
\* generate_event_themes returns the list the registered handler returns
C4_StandaloneSameAsHandler ==
    lastOp = "generate_event_themes" => themes = ThemesOutput(response)

\* C4 amended: the standalone generate_event_themes returns the list of the
\* registered handler when the content parses to at least one segment; on a
\* failure of the call it returns the one string "Error generating themes: "
\* followed by the error text, and on a content that parses to no segment the
\* one string "Error: Unable to generate themes", where the handler returns
\* its five fallback strings
C4_StandaloneSameOnSuccess ==
    lastOp = "generate_event_themes" =>
        IF NoContent(response)
        THEN /\ themes = << <<"Error generating themes: ">> \o ErrorText(response) >>
             /\ Len(ThemesOutput(response)) = 5
        ELSE IF cleaned_themes(response.text) = << >>
        THEN /\ themes = << <<"Error: Unable to generate themes">> >>
             /\ Len(ThemesOutput(response)) = 5
        ELSE themes = ThemesOutput(response)

\* the standalone method parsed two themes with whitespace to trim, the
\* themes the handler returns
C4_Witness ==
    /\ lastOp = "generate_event_themes"
    /\ response = Response("content", <<"a", " ", "*", "*", "1", ".", "a">>)
    /\ themes = << <<"a">>, <<"a">> >>

\* C5: for every failure of the completion call of the registered
\* refine_event_plan handler the handler returns one fallback document that
\* contains the selected theme, the location, the start and the end date and
\* the text of the failure; on success it returns the content without its
\* leading and trailing whitespace
C5_FallbackPlan ==
    (lastOp = "_refine_plan" /\ completionCalls = 1) =>
        LET in == lastArgs[1] IN
        /\ outcome = "returned"
        /\ IF NoContent(response)
           THEN /\ Contains(plan, in.selected_theme)
                /\ Contains(plan, in.location)
                /\ Contains(plan, in.start_date)
                /\ Contains(plan, in.end_date)
                /\ Contains(plan, ErrorText(response))
           ELSE LET c == response.text IN
                \E i \in 1..(Len(c) + 1) : \E j \in 0..Len(c) :
                    /\ plan = SubSeq(c, i, j)
                    /\ \A k \in 1..(i - 1) : IsSpace(c[k])
                    /\ \A k \in (j + 1)..Len(c) : IsSpace(c[k])
                    /\ plan # << >> => ~IsSpace(plan[1]) /\ ~IsSpace(plan[Len(plan)])

\* a two-day request whose completion call raised got the fallback document
C5_Witness ==
    /\ lastOp = "_refine_plan"
    /\ completionCalls = 1
    /\ response.kind = "raises"
    /\ lastArgs[1].start_date # lastArgs[1].end_date
    /\ Contains(plan, <<"Connection error.">>)
    /\ Contains(plan, lastArgs[1].end_date)

\* places of s where a heading marker starts: two asterisks, one digit or
\* more, a dot
MarkerStarts(s) ==
    { i \in 1..Len(s) :
        \E dot \in (i + 3)..Len(s) :
            /\ s[i] = "*" /\ s[i + 1] = "*" /\ s[dot] = "."
            /\ \A k \in (i + 2)..(dot - 1) : IsDigit(s[k]) }

\* the place after the marker that starts at s[i] and the whitespace after it
MarkerStop(s, i) ==
    LET dot == CHOOSE p \in (i + 3)..Len(s) :
                   s[p] = "." /\ \A k \in (i + 2)..(p - 1) : IsDigit(s[k])
    IN CHOOSE e \in (dot + 1)..(Len(s) + 1) :
           /\ \A k \in (dot + 1)..(e - 1) : IsSpace(s[k])
           /\ e <= Len(s) => ~IsSpace(s[e])

\* the texts of s between its heading markers, in order: before the first
\* marker, between each marker and the next, after the last
Between(s) ==
    LET starts == MarkerStarts(s)
        n == Cardinality(starts)
        nth(k) == CHOOSE i \in starts : Cardinality({ j \in starts : j < i }) = k - 1
    IN [ k \in 1..(n + 1) |->
           SubSeq(s, IF k = 1 THEN 1 ELSE MarkerStop(s, nth(k - 1)),
                     IF k = n + 1 THEN Len(s) ELSE nth(k) - 1) ]

\* the themes are the default themes of the except clause
IsFallback(th) == Len(th) = 5 /\ th[1] = fallback_themes(<< >>)[1]

\* C12: on a completion response with a content, the themes returned are, in
\* order, the texts of the trimmed content between its heading markers that
\* are not empty, each with its blank lines replaced and trimmed: nothing but
\* the marker and the whitespace after it is removed, a text before the first
\* marker is returned as the first theme, and there are as many themes as
\* such texts; the default themes are returned when there is no such text
C12_ThemesAreSegments ==
    (lastOp = "_generate_themes" /\ ~NoContent(response)) =>
        LET segments == Between(strip(response.text))
            kept == SelectSeq(segments, LAMBDA g : g # << >>) IN
        IF kept = << >> THEN IsFallback(themes)
        ELSE /\ Len(themes) = Len(kept)
             /\ \A k \in DOMAIN kept : themes[k] = strip(replace_blank_lines(kept[k], 1))
             /\ segments[1] # << >> => themes[1] = strip(replace_blank_lines(segments[1], 1))

\* a text before the first heading and a heading with its closing bold marker
\* gave two themes, the second with the closing marker
C12_Witness ==
    /\ lastOp = "_generate_themes"
    /\ response = Response("content", <<"a", "*", "*", "1", ".", "a", "*", "*">>)
    /\ themes = << <<"a">>, <<"a", "*", "*">> >>

\* the sentence of the single-day template that names the one date
OnOneDay(in) ==
    <<"), location, target audience, and purpose for the event on ">> \o in.start_date

\* the sentence of the multi-day template that names both dates
FromTo(in) ==
    <<"), location, target audience, and purpose for the event from ">>
    \o in.start_date \o <<" to ">> \o in.end_date

\* the instruction of the multi-day template to balance the agenda
SplitAcrossDays(in) ==
    <<" Please make sure to split the agenda across both days (">>
    \o in.start_date \o <<" and ">> \o in.end_date
    \o <<"), showing a balanced distribution of sessions, breaks, and networking events for both days. ">>

\* the prompt is the single-day template, the multi-day template
IsSingleDay(p, in) ==
    Contains(p, OnOneDay(in)) /\ ~Contains(p, FromTo(in)) /\ ~Contains(p, SplitAcrossDays(in))
IsMultiDay(p, in) ==
    ~Contains(p, OnOneDay(in)) /\ Contains(p, FromTo(in)) /\ Contains(p, SplitAcrossDays(in))

\* C13 as claimed: every call of the registered refine_event_plan handler
\* sends one prompt, the single-day template (without the instruction to
\* balance the days) when start_date and end_date are the same string and the
\* multi-day template, which names both dates and asks for a balanced split
\* of the agenda, when they differ
C13_TemplateByDates ==
    lastOp = "_refine_plan" =>
        LET in == lastArgs[1] IN
        /\ completionCalls = 1
        /\ IsSingleDay(prompt, in) <=> in.start_date = in.end_date
        /\ IsMultiDay(prompt, in) <=> in.start_date # in.end_date

\* C15: every theme the registered generate_event_themes handler returns
\* from a parsed content (not the default themes) is non-empty and neither
\* begins nor ends with whitespace, whatever the content
C15_ThemesTrimmedNonEmpty ==
    (lastOp = "_generate_themes" /\ ~IsFallback(themes)) =>
        \A k \in DOMAIN themes :
            /\ themes[k] # << >>
            /\ ~IsSpace(themes[k][1])
            /\ ~IsSpace(themes[k][Len(themes[k])])

\* a heading followed by whitespace only, then a heading with a text: one
\* theme came back, the text
C15_Witness ==
    /\ lastOp = "_generate_themes"
    /\ response = Response("content", <<"*", "*", "1", ".", " ", "*", "*", "1", ".", "a">>)
    /\ themes = << <<"a">> >>

\* C16 as claimed: no theme returned from a parsed content holds two blank
\* lines in a row (three newline characters in a row), however long the runs
\* of newlines in the content, and the cleaning step applied to a returned
\* theme returns that theme
C16_BlankLinesNormalized ==
    (lastOp = "_generate_themes" /\ ~IsFallback(themes)) =>
        \A k \in DOMAIN themes :
            /\ ~Contains(themes[k], <<"\n", "\n", "\n">>)
            /\ strip(replace_blank_lines(themes[k], 1)) = themes[k]

\* C17 as claimed: for every input of EventPlanInputs, a moderator mapping
\* without a name included, and every outcome of the completion call, the
\* registered refine_event_plan handler returns and does not raise, and the
\* prompt holds the sentence "No specific moderators provided." exactly when
\* the list of moderators is empty
C17_RefineNeverRaises ==
    lastOp = "_refine_plan" =>
        /\ outcome = "returned"
        /\ Contains(prompt, <<"No specific moderators provided.">>)
              <=> lastArgs[1].moderators = << >>

====
